---- MODULE Spec2Model ----
(***************************************************************************)
(* Pagy Blocker: the per-domain override manager of the background worker  *)
(* (background.js) over the host engine's session-rule table and the       *)
(* persisted storage keys, together with the priority the filter           *)
(* precompiler gives to the static block rules; and the precompiler's      *)
(* line loop (filter_precompiler.js, precompileFilterList), one action per *)
(* loop iteration.  Strings are sequences of character codes.              *)
(*                                                                         *)
(* One action is one host API call taking effect together with the         *)
(* synchronous continuation that follows it; handlers interleave only at   *)
(* these await points.  chrome.storage calls are assumed to succeed and to *)
(* take effect in issue order; declarativeNetRequest calls may reject.     *)
(***************************************************************************)
EXTENDS Integers, Sequences, FiniteSets, TLC

\* ---------------------------------------------------------------- bounds
MaxToggles == 2
MaxSeq == 2
MaxFaults == 1
MaxRestarts == 1
\* number of pieces (a sample line and its line ending) of an input text
MaxLines == 2
\* number of times the loop may come back to a line it has scanned
MaxRescans == 2
\* number of compilations of the same input, one after the other
MaxRuns == 2
\* number of requests in a row among domains whose ids clash
MaxCollide == 3
\* length of the strings hashCode is applied to
MaxHashLen == 7
\* number of getStats requests, how far the clock runs (in ticks), and the
\* milliseconds of a tick
MaxStats == 3
MaxTicks == 2
TickMs == 500
\* number of times the user flips the switch of the popup
MaxChanges == 2

\* ------------------------------------------------------------- constants
ALLOW_PRIORITY == 100000
DEFAULT_PRIORITY == 1

\* A storage key that was never written, and one holding a list.
NoValue == [ set |-> FALSE, value |-> <<>> ]
Stored(list) == [ set |-> TRUE, value |-> list ]
NoDomain == <<>>
NoTab == 0
\* statsCache = null: nothing cached (the other fields are not read).
Null ==
  [ cached |-> FALSE, rulesCount |-> 0, lastUpdate |-> 0, isEnabled |-> FALSE ]

\* Host names as tuples of UTF-16 code units: "an", "ao", "zz".
\* hashCode("ao") = hashCode("an") + 1, "zz" is far from both.
Domains == { <<97, 110>>, <<97, 111>>, <<122, 122>> }

Startup == 0
Procs == {1, 2}
AllProcs == {Startup} \cup Procs

ResourceTypes ==
  { "main_frame", "sub_frame", "stylesheet", "script", "image", "font",
    "object", "xmlhttprequest", "ping", "csp_report", "media", "websocket",
    "other" }

\* The ids of the shipped static ruleset: compiled with startId 1, 91 rules.
SHIPPED_RULE_COUNT == 91
ShippedRuleIds == 1..SHIPPED_RULE_COUNT

\* Values of options.priority handed to the precompiler (0 stands for an
\* absent or falsy option).
PriorityOptions == {0, 1, 100000}

VARIABLES
  disabledDomains,   \* storage key disabledDomains: NoValue or a list
  isEnabled,         \* storage key isEnabled
  lastUpdate,        \* storage key lastUpdate: Date.now() as a logical time
  enabledRulesets,   \* engine: ids of the enabled static rulesets
  sessionRules,      \* engine: the session-rule table
  compiledPriority,  \* priority of the rules of the compiled artifact
  statsCache,        \* in-memory stats cache of the worker
  cacheTime,         \* Date.now() of the handler that filled the cache
  pc,                \* per handler: the await point it is suspended at
  request,           \* per handler: the message it serves
  gelesen,           \* per handler: result.disabledDomains as read
  response,          \* per handler: what sendResponse delivered last
  adapterFailed,     \* history: an adapter call of the running toggle rejected
  injected,          \* history: ... for a reason other than a duplicate id
  stale,             \* history: the running toggle overwrote a value it had
                     \*          not read
  log,               \* history: the completed requests of a scenario
  overlapped,        \* history: two requests of a scenario were in flight
                     \*          together
  toggles,           \* number of requests received so far
  faults,            \* number of adapter rejections injected so far
  restarts,          \* number of browser restarts so far
  toggledSinceRestart, \* history: a request arrived since the last restart
  initialDomains,    \* history: disabledDomains of the initial state
  initialRules,      \* history: sessionRules of the initial state
  filterText,        \* precompileFilterList: the filterText argument
  options,           \* ... the options argument
  cpc,               \* ... where the call is: call, loop, returned, threw
  rules,             \* ... const rules = []
  ruleId,            \* ... let ruleId
  processedRules,    \* ... let processedRules
  skippedLines,      \* ... let skippedLines
  errors,            \* ... let errors
  lineStart,         \* ... let lineStart (0-based, as in the source)
  result,            \* ... what the call returned
  scanned,           \* history: one entry per loop iteration of this call
  run,               \* number of the running compilation of this input
  previous,          \* history: what the compilation before this returned
  hashArg,           \* hashCode: the str argument
  hashReturned,      \* hashCode: what the call returned
  clock,             \* Date.now(), in milliseconds since the worker woke
  spc,               \* per getStats handler: the await point it is at
  snow,              \* per getStats handler: const now
  sresult,           \* per getStats handler: const result (storage.get)
  answers,           \* history: what the getStats handlers answered
  completed,         \* history: a toggle has completed
  persistedSince,    \* history: what was persisted at or after the completion
                     \*          of the last toggle
  gerade_am_togglen, \* popup: a toggle is being handled
  checked,           \* popup: enableSwitch.checked
  statsText,         \* popup: statsDisplay.textContent
  lpc,               \* per run of the change listener: where it is
  neuerStatus,       \* per run of the change listener: const neuerStatus
  call,              \* per run: the createTimeoutMessage call it awaits
                     \*          (message unanswered, timer, abort signal)
  originalText,      \* per run: the text its pending setTimeout restores
  attempt            \* history, per run: what became of its toggle request

storageVars == <<disabledDomains, isEnabled, lastUpdate>>
engineVars == <<enabledRulesets, sessionRules, compiledPriority>>
handlerVars == <<pc, request, gelesen, response>>
flagVars == <<adapterFailed, injected, stale>>
scenarioVars == <<log, overlapped, initialDomains, initialRules>>
countVars == <<toggles, faults, restarts, toggledSinceRestart>>
workerVars == <<storageVars, engineVars, statsCache,
                 cacheTime, handlerVars,
                flagVars, scenarioVars, countVars>>
localVars == <<rules, ruleId, processedRules, skippedLines, errors,
               lineStart>>
compilerVars == <<filterText, options, cpc, localVars, result, scanned, run,
                  previous>>
hashVars == <<hashArg, hashReturned>>
\* What the handlers of the worker, and what the precompiler, leave alone.
statsVars == <<clock, spc, snow, sresult, answers, completed, persistedSince>>
popupVars == <<gerade_am_togglen, checked, statsText, lpc, neuerStatus, call,
               originalText, attempt>>
outsideWorker == <<compilerVars, hashVars, statsVars, popupVars>>
outsideCompiler == <<workerVars, hashVars, statsVars, popupVars>>
outsideHash == <<workerVars, compilerVars, statsVars, popupVars>>
outsideStats == <<compilerVars, hashVars, popupVars>>
outsidePopup == <<workerVars, compilerVars, hashVars, statsVars>>
vars == <<workerVars, compilerVars, hashVars, statsVars, popupVars>>

\* ------------------------------------------------------ filter precompiler
\* precompileFilterList: ruleTemplate.priority = options.priority || 1,
\* copied into every compiled rule.
RulePriority(optPriority) ==
  IF optPriority = 0 THEN DEFAULT_PRIORITY ELSE optPriority

\* CONFIG.MAX_FILTER_LENGTH
MAX_FILTER_LENGTH == 1000

\* The character codes the compiler tells apart.
NUL == 0
TAB == 9
LF == 10
CR == 13
SPACE == 32
BANG == 33
HASH == 35
STAR == 42
SLASH == 47
LBRACKET == 91
CARET == 94
PIPE == 124

\* str[i] and str.substring(from, to), 0-based as in the source.
CharAt(str, i) == str[i + 1]
Substring(str, from, to) == SubSeq(str, from + 1, to)

\* filterText.indexOf(char, from): the first position at or after from
\* that holds char, -1 if there is none.
IndexOf(str, char, from) ==
  LET found == { i \in from..(Len(str) - 1) : CharAt(str, i) = char }
  IN  IF found = {} THEN -1
      ELSE CHOOSE i \in found : \A j \in found : i <= j

\* let lineEnd = filterText.indexOf('\n', lineStart);
\* if (lineEnd === -1) lineEnd = textLength;
LineEndFrom(text, from) ==
  LET i == IndexOf(text, LF, from)
  IN  IF i = -1 THEN Len(text) ELSE i

\* if (line.endsWith('\r')) line = line.slice(0, -1);
DropCR(line) ==
  IF Len(line) > 0 /\ line[Len(line)] = CR
  THEN SubSeq(line, 1, Len(line) - 1)
  ELSE line

\* line[i] === ' ' || line[i] === '\t' || line[i] === '\r'
IsBlank(char) == char \in {SPACE, TAB, CR}

\* while (start < end && blank(line[start])) start++;
\* where the loop stops: every position before is blank, this one is not
\* (or the line is used up).
TrimStart(line) ==
  CHOOSE start \in 0..Len(line) :
    /\ start = Len(line) \/ ~IsBlank(CharAt(line, start))
    /\ \A k \in 0..(start - 1) : IsBlank(CharAt(line, k))

\* while (end > start && blank(line[end - 1])) end--;
TrimEnd(line, start) ==
  CHOOSE end \in start..Len(line) :
    /\ end = start \/ ~IsBlank(CharAt(line, end - 1))
    /\ \A k \in end..(Len(line) - 1) : IsBlank(CharAt(line, k))

\* if (start > 0 || end < line.length) trimmed = line.substring(start, end);
Trimmed(line) ==
  LET start == TrimStart(line)
      end == TrimEnd(line, start)
  IN  IF start > 0 \/ end < Len(line)
      THEN Substring(line, start, end)
      ELSE line

\* !trimmed || trimmed[0] === '#' || trimmed[0] === '!' || trimmed[0] === '['
IsIgnorable(trimmed) ==
  IF Len(trimmed) = 0 THEN TRUE ELSE trimmed[1] \in {HASH, BANG, LBRACKET}

\* trimmed.length > 4 && trimmed.startsWith('||') && trimmed.endsWith('^')
IsAnchored(trimmed) ==
  /\ Len(trimmed) > 4
  /\ trimmed[1] = PIPE
  /\ trimmed[2] = PIPE
  /\ trimmed[Len(trimmed)] = CARET

\* const domain = trimmed.substring(2, trimmed.length - 1);
DomainOf(trimmed) == Substring(trimmed, 2, Len(trimmed) - 1)

\* domain.length === 0 || domain.length > CONFIG.MAX_FILTER_LENGTH
OutOfBounds(domain) ==
  IF Len(domain) = 0 THEN TRUE ELSE Len(domain) > MAX_FILTER_LENGTH

\* Mutant of IsValid: a slash in the body goes unnoticed.
IsValidButForSlash(domain) ==
  ~ \E i \in 1..Len(domain) : domain[i] \in {STAR, NUL}

\* the isValid loop: isValid = false at the first '*', '/' or NUL
IsValid(domain) ==
  ~ \E i \in 1..Len(domain) : domain[i] \in {STAR, SLASH, NUL}

\* let ruleId = options.startId || 1;
StartId(opts) == IF opts.startId = 0 THEN 1 ELSE opts.startId

\* Mutant of NextRuleId: the id is not advanced.
NextRuleIdSame(id) == id

\* ruleId++
NextRuleId(id) == id + 1

\* const resourceTypes = [...]
CompilerResourceTypes ==
  << "main_frame", "sub_frame", "stylesheet", "script", "image", "font",
     "object", "xmlhttprequest", "ping", "csp_report", "media", "websocket",
     "other" >>

\* Mutant of CompiledRule: the pattern is stored without its anchors.
CompiledRuleBody(id, priority, trimmed) ==
  [ id |-> id, priority |-> priority, action |-> "block",
    urlFilter |-> DomainOf(trimmed),
    resourceTypes |-> CompilerResourceTypes ]

\* const rule = { id, priority, action: baseAction,
\*                condition: { urlFilter: trimmed, resourceTypes } }
CompiledRule(id, priority, trimmed) ==
  [ id |-> id, priority |-> priority, action |-> "block",
    urlFilter |-> trimmed,
    resourceTypes |-> CompilerResourceTypes ]

\* Mutant of SkipLine: the line is not counted.
SkipLineUncounted(n) == n

\* skippedLines++
SkipLine(n) == n + 1

\* Mutant of TotalLines: only the lines that became rules.
TotalLinesProcessed(processed, skipped) == processed

\* const totalLines = processedRules + skippedLines;
TotalLines(processed, skipped) == processed + skipped

\* Mutant of IsString: anything passes for a string.
IsStringAny(value) == TRUE

\* typeof filterText === 'string'
IsString(value) == value.type = "string"

\* What a call hands back: { rules, stats }, or nothing when it throws.
Stats(total, processed, skipped, errs) ==
  [ totalLines |-> total, processedRules |-> processed,
    skippedLines |-> skipped, errors |-> errs ]
Returned(rs, stats) == [ returned |-> TRUE, rules |-> rs, stats |-> stats ]
NoResult == [ returned |-> FALSE, rules |-> <<>>, stats |-> Stats(0, 0, 0, 0) ]

\* ---- the inputs of a compilation
Repeat(char, n) == [ i \in 1..n |-> char ]

\* Lines of every class the compiler tells apart: empty, the three kinds
\* of comment, patterns it takes, patterns with a forbidden character, a
\* pattern too short, a line without the anchors, a padded line.
CommentLine ==      \* "# c"
  << 35, 32, 99 >>
NoteLine ==         \* "! c"
  << 33, 32, 99 >>
HeaderLine ==       \* "[Adblock]"
  << 91, 65, 100, 98, 108, 111, 99, 107, 93 >>
AdsLine ==          \* "||ads.example.com^"
  << 124, 124, 97, 100, 115, 46, 101, 120, 97, 109, 112, 108, 101, 46, 99,
     111, 109, 94 >>
WildcardLine ==     \* "||*.example.com^"
  << 124, 124, 42, 46, 101, 120, 97, 109, 112, 108, 101, 46, 99, 111, 109,
     94 >>
PathLine ==         \* "||example.com/path^"
  << 124, 124, 101, 120, 97, 109, 112, 108, 101, 46, 99, 111, 109, 47, 112,
     97, 116, 104, 94 >>
NulLine == <<PIPE, PIPE, 97, NUL, 98, CARET>>
ShortLine ==        \* "||a^"
  << 124, 124, 97, 94 >>
BareLine ==         \* "ads.example.com"
  << 97, 100, 115, 46, 101, 120, 97, 109, 112, 108, 101, 46, 99, 111, 109 >>
PaddedLine ==       \* " \t||Ads.Example.COM^\t "
  << 32, 9, 124, 124, 65, 100, 115, 46, 69, 120, 97, 109, 112, 108, 101,
     46, 67, 79, 77, 94, 9, 32 >>
SampleLines ==
  { <<>>, CommentLine, NoteLine, HeaderLine, AdsLine, WildcardLine, PathLine,
    NulLine, ShortLine, BareLine, PaddedLine }

\* A piece is a line and what ends it; a few lines come with CRLF or as
\* the unterminated end of the text.
Pieces ==
  { l \o <<LF>> : l \in SampleLines }
    \cup { l \o <<CR, LF>> : l \in { <<>>, AdsLine, PaddedLine } }
    \cup { AdsLine, CommentLine }

RECURSIVE Concat(_)
Concat(pieces) ==
  IF pieces = <<>> THEN <<>> ELSE Head(pieces) \o Concat(Tail(pieces))

ShortTexts ==
  UNION { { Concat(f) : f \in [1..n -> Pieces] } : n \in 0..MaxLines }

\* Patterns with a body of MAX_FILTER_LENGTH and of MAX_FILTER_LENGTH + 1
\* characters, alone or between other lines.
LongestLine == <<PIPE, PIPE>> \o Repeat(97, MAX_FILTER_LENGTH) \o <<CARET>>
OverlongLine ==
  <<PIPE, PIPE>> \o Repeat(97, MAX_FILTER_LENGTH + 1) \o <<CARET>>
LongTexts ==
  { before \o long \o after :
      before \in { <<>>, AdsLine \o <<LF>> },
      long \in { LongestLine, OverlongLine },
      after \in { <<>>, <<LF>>, <<LF>> \o AdsLine \o <<LF>> } }

Texts == ShortTexts \cup LongTexts

\* The values typeof tells from a string.
NonStrings == { "null", "undefined", "number", "object" }
Inputs ==
  { [ type |-> "string", text |-> t ] : t \in Texts }
    \cup { [ type |-> k, text |-> <<>> ] : k \in NonStrings }

\* options: nothing given (0 stands for a missing or zero field), the
\* values main() passes, and others.
CompileOptions ==
  { [ startId |-> 0, priority |-> 0 ],
    [ startId |-> 1, priority |-> 1 ],
    [ startId |-> 7, priority |-> 5 ] }

\* ------------------------------------------------------------ hashCode
\* A signed 32-bit value from its unsigned 16-bit halves.
Int32(hi, lo) ==
  IF hi >= 32768 THEN (hi - 65536) * 65536 + lo ELSE hi * 65536 + lo

\* hash = ((hash << 5) - hash) + char; hash = hash & hash
\* i.e. 31 * hash + char wrapped to a signed 32-bit integer, computed on
\* 16-bit halves so that no intermediate value leaves the 32-bit range.
HashStep(hash, char) ==
  LET lo == hash % 65536
      hi == (hash \div 65536) % 65536
      l2 == 31 * lo + char
      h2 == 31 * hi + (l2 \div 65536)
  IN  Int32(h2 % 65536, l2 % 65536)

RECURSIVE HashFrom(_, _, _)
HashFrom(hash, str, i) ==
  IF i > Len(str) THEN hash
  ELSE HashFrom(HashStep(hash, str[i]), str, i + 1)

\* Mutant of Abs: the sign is kept.
AbsKeepsSign(x) == x

Abs(x) == IF x < 0 THEN 0 - x ELSE x

hashCode(str) == Abs(HashFrom(0, str, 1))

\* No call of hashCode is being looked at.
NoHash == [ done |-> FALSE, value |-> 0 ]
NotHashing ==
  /\ hashArg = <<>>
  /\ hashReturned = NoHash

\* The characters of the strings hashCode is applied to: ".", "a", "n", "z".
HashChars == {46, 97, 110, 122}
RECURSIVE StringsUpTo(_)
StringsUpTo(n) ==
  IF n = 0 THEN { <<>> }
  ELSE LET shorter == StringsUpTo(n - 1)
       IN  shorter \cup { Append(t, c) : t \in shorter, c \in HashChars }

\* ------------------------------------------------------------ getStats
STATS_CACHE_DURATION == 1000
StatsProcs == {1, 2}

\* aktuelleRegelanzahl
RulesCount(enabled) ==
  IF "ruleset_1" \in enabled THEN SHIPPED_RULE_COUNT ELSE 0

\* What a getStats answer should show: the persisted flag and the rule count
\* of the enabled rulesets.
Persisted == [ isEnabled |-> isEnabled, rulesCount |-> RulesCount(enabledRulesets) ]

NoStatsResult == [ lastUpdate |-> 0, isEnabled |-> TRUE ]

\* No getStats request has been received.
NoStats ==
  /\ clock = 0
  /\ spc = [ g \in StatsProcs |-> "idle" ]
  /\ snow = [ g \in StatsProcs |-> 0 ]
  /\ sresult = [ g \in StatsProcs |-> NoStatsResult ]
  /\ answers = <<>>
  /\ completed = FALSE
  /\ persistedSince = {}

\* --------------------------------------------------------------- popup
\* KONFIGURATION.TOGGLE_TIMEOUT, and the timeout refreshStats passes.
TOGGLE_TIMEOUT == 3000
STATS_TIMEOUT == 2000

\* The runs of the change listener of the switch, in the order of the clicks.
Changes == 1..MaxChanges

\* What the callback of sendMessage is called with: the result of the
\* handler, its { error } result, or chrome.runtime.lastError set.
Responses == {"result", "error", "lastError"}

NoCall ==
  [ message |-> "none", timeoutMs |-> 0, armed |-> FALSE, elapsed |-> 0,
    aborted |-> FALSE ]

\* createTimeoutMessage up to sendMessage: the timer is set, the message sent.
StartCall(message, timeoutMs) ==
  [ message |-> message, timeoutMs |-> timeoutMs, armed |-> TRUE,
    elapsed |-> 0, aborted |-> FALSE ]

NoAttempt ==
  [ before |-> FALSE, sent |-> 0, calls |-> 0, outcome |-> "none",
    shown |-> FALSE, reported |-> "none", late |-> FALSE ]

\* The popup after initializePopup, the switch untouched.
PopupReady ==
  /\ gerade_am_togglen = FALSE
  /\ statsText = "Aktive Filterregeln"
  /\ lpc = [ l \in Changes |-> "ready" ]
  /\ neuerStatus = [ l \in Changes |-> FALSE ]
  /\ call = [ l \in Changes |-> NoCall ]
  /\ originalText = [ l \in Changes |-> "none" ]
  /\ attempt = [ l \in Changes |-> NoAttempt ]

\* The popup is not looked at.
NoPopup ==
  /\ checked = TRUE
  /\ PopupReady

\* ---------------------------------------------------- the ExemptionSet
\* result.disabledDomains || []
OrEmpty(v) == IF v.set THEN v.value ELSE <<>>

Includes(list, d) == \E i \in 1..Len(list) : list[i] = d

\* Mutant of Without: the comparison of the filter turned around.
WithoutKeepsOnly(list, d) == SelectSeq(list, LAMBDA x : x = d)

\* deaktivierteDomains.filter(x => x !== domain)
Without(list, d) == SelectSeq(list, LAMBDA x : x # d)

\* The list toggleRulesetFuerDomain writes back, from the list it read.
NeueListe(list, domain, istAktiviert) ==
  IF istAktiviert THEN Without(list, domain)
  ELSE IF Includes(list, domain) THEN list
  ELSE Append(list, domain)

Elements(list) == { list[i] : i \in 1..Len(list) }

Members(v) == Elements(OrEmpty(v))

\* ------------------------------------------------------ session rules
\* The rule objects updateSessionRulesForDomain builds.
IncomingRule(domain) ==
  [ id |-> hashCode(domain), priority |-> ALLOW_PRIORITY, action |-> "allow",
    condition |-> "initiatorDomains", domain |-> domain,
    resourceTypes |-> ResourceTypes ]

\* Mutant of OutgoingRule: the id of the target rule is off by one.
OutgoingRuleOff(domain) ==
  [ id |-> hashCode(domain) + 2, priority |-> ALLOW_PRIORITY,
    action |-> "allow", condition |-> "requestDomains", domain |-> domain,
    resourceTypes |-> ResourceTypes ]

OutgoingRule(domain) ==
  [ id |-> hashCode(domain) + 1, priority |-> ALLOW_PRIORITY,
    action |-> "allow", condition |-> "requestDomains", domain |-> domain,
    resourceTypes |-> ResourceTypes ]

RuleIds(table) == { r.id : r \in table }

\* updateSessionRules({addRules: [rule]}): the engine rejects a rule whose
\* id is already in the table and then changes nothing.
\* Mutant of CanAdd: the engine takes a rule whatever its id.
CanAddAnything(table, rule) == TRUE

CanAdd(table, rule) == rule.id \notin RuleIds(table)

\* Mutant of RemoveIds: only the lowest id is removed, the second rule of
\* the pair is forgotten.
RemoveLowestIdOnly(table, ids) ==
  { r \in table : r.id \notin ids \/ \E i \in ids : i < r.id }

\* updateSessionRules({removeRuleIds: ids}); an absent id is ignored.
RemoveIds(table, ids) == { r \in table : r.id \notin ids }

\* The table after a fault-free updateSessionRulesForDomain(domain, false):
\* the second add is only reached when the first one did not reject.
InstallPair(table, domain) ==
  IF ~CanAdd(table, IncomingRule(domain)) THEN table
  ELSE LET t1 == table \cup {IncomingRule(domain)}
       IN  IF CanAdd(t1, OutgoingRule(domain))
           THEN t1 \cup {OutgoingRule(domain)} ELSE t1

RECURSIVE InstallAll(_, _, _)
InstallAll(table, list, i) ==
  IF i > Len(list) THEN table
  ELSE InstallAll(InstallPair(table, list[i]), list, i + 1)

\* Lists of pairwise different domains.
DistinctLists ==
  { s \in UNION { [1..n -> Domains] : n \in 0..Cardinality(Domains) } :
      \A i, j \in 1..Len(s) : i # j => s[i] # s[j] }

\* --------------------------------------------------------------- state
NoRequest == [ domain |-> NoDomain, isEnabled |-> TRUE, wellTyped |-> TRUE ]

Idle == \A p \in AllProcs : pc[p] = "idle"

\* The engine rejects a call for a reason of its own (rule limit, internal
\* error) at most MaxFaults times.
Outcomes == IF faults < MaxFaults THEN BOOLEAN ELSE {TRUE}

InitHandlers ==
  /\ statsCache = Null
  /\ cacheTime = 0
  /\ pc = [ p \in AllProcs |-> "idle" ]
  /\ request = [ p \in AllProcs |-> NoRequest ]
  /\ gelesen = [ p \in Procs |-> NoValue ]
  /\ response = [ p \in Procs |-> "none" ]
  /\ adapterFailed = [ p \in Procs |-> FALSE ]
  /\ injected = [ p \in Procs |-> FALSE ]
  /\ stale = [ p \in Procs |-> FALSE ]
  /\ log = <<>>
  /\ overlapped = FALSE
  /\ toggles = 0
  /\ faults = 0
  /\ restarts = 0
  /\ toggledSinceRestart = FALSE
  /\ initialDomains = disabledDomains
  /\ initialRules = sessionRules

\* No compilation is running in the worker.
NotCompiling ==
  /\ filterText = [ type |-> "undefined", text |-> <<>> ]
  /\ options = [ startId |-> 0, priority |-> 0 ]
  /\ cpc = "idle"
  /\ rules = <<>>
  /\ ruleId = 0
  /\ processedRules = 0
  /\ skippedLines = 0
  /\ errors = 0
  /\ lineStart = 0
  /\ result = NoResult
  /\ scanned = <<>>
  /\ run = 0
  /\ previous = NoResult

\* The state initialisieren leaves after onInstalled: nothing exempted, the
\* static ruleset enabled, the shipped artifact compiled with priority 1.
Init ==
  /\ disabledDomains = NoValue
  /\ isEnabled = TRUE
  /\ lastUpdate = 0
  /\ enabledRulesets = {"ruleset_1"}
  /\ sessionRules = {}
  /\ compiledPriority = RulePriority(1)
  /\ InitHandlers
  /\ NotCompiling
  /\ NotHashing
  /\ NoStats
  /\ NoPopup

\* Any state the worker can be woken in: some domains exempted, their rules
\* either installed in toggle order or lost with the last browser session.
Woken ==
  /\ disabledDomains \in { Stored(l) : l \in DistinctLists } \cup {NoValue}
  /\ isEnabled = TRUE
  /\ lastUpdate = 0
  /\ enabledRulesets = {"ruleset_1"}
  /\ sessionRules \in { {}, InstallAll({}, OrEmpty(disabledDomains), 1) }

InitPair ==
  /\ Woken
  /\ compiledPriority = RulePriority(1)
  /\ InitHandlers
  /\ NotCompiling
  /\ NotHashing
  /\ NoStats
  /\ NoPopup

\* ... and the artifact compiled with any priority the precompiler takes.
InitSeq ==
  /\ Woken
  /\ compiledPriority \in { RulePriority(o) : o \in PriorityOptions }
  /\ InitHandlers
  /\ NotCompiling
  /\ NotHashing
  /\ NoStats
  /\ NoPopup

\* ------------------------------------------------------------- handlers
\* onMessage listener -> handleToggleBlocking, up to its first await.
Begin(p, d, en) ==
  /\ pc[p] = "idle"
  /\ request' = [request EXCEPT ![p] =
                   [ domain |-> d, isEnabled |-> en, wellTyped |-> TRUE ]]
  /\ pc' = [pc EXCEPT ![p] = IF d = NoDomain THEN "rulesets" ELSE "get"]
  /\ response' = [response EXCEPT ![p] = "none"]
  /\ toggles' = toggles + 1
  /\ toggledSinceRestart' = TRUE
  /\ UNCHANGED <<storageVars, engineVars, statsCache,
                 cacheTime, gelesen, flagVars,
                 faults, restarts, initialDomains, initialRules>>

\* handleToggleBlocking: typeof request.isEnabled !== 'boolean'.
InvalidRequest(p) ==
  /\ pc[p] = "idle"
  /\ response' = [response EXCEPT ![p] = "error"]
  /\ toggles' = toggles + 1
  /\ toggledSinceRestart' = TRUE
  /\ UNCHANGED <<storageVars, engineVars, statsCache,
                 cacheTime, pc, request, gelesen,
                 flagVars, scenarioVars, faults, restarts>>

\* toggleRulesetFuerDomain: await chrome.storage.local.get.
StorageGet(p) ==
  /\ pc[p] = "get"
  /\ gelesen' = [gelesen EXCEPT ![p] = disabledDomains]
  /\ pc' = [pc EXCEPT ![p] = "set"]
  /\ UNCHANGED <<storageVars, engineVars, statsCache,
                 cacheTime, request, response,
                 flagVars, scenarioVars, countVars>>

\* toggleRulesetFuerDomain: the list is changed and written back.
StorageSet(p) ==
  /\ pc[p] = "set"
  /\ disabledDomains' = Stored(NeueListe(OrEmpty(gelesen[p]),
                                         request[p].domain,
                                         request[p].isEnabled))
  /\ lastUpdate' = lastUpdate + 1
  /\ stale' = [stale EXCEPT ![p] = disabledDomains # gelesen[p]]
  /\ pc' = [pc EXCEPT ![p] = IF request[p].isEnabled THEN "remove" ELSE "add1"]
  /\ UNCHANGED <<isEnabled, engineVars, statsCache,
                 cacheTime, request, gelesen, response,
                 adapterFailed, injected, scenarioVars, countVars>>

\* An adapter call of handler p rejected; the catch block only logs it.
Rejected(p, byEngine) ==
  /\ adapterFailed' = [adapterFailed EXCEPT ![p] = TRUE]
  /\ injected' = [injected EXCEPT ![p] = @ \/ byEngine]
  /\ faults' = IF byEngine THEN faults + 1 ELSE faults
  /\ UNCHANGED sessionRules

\* updateSessionRulesForDomain(domain, true): both ids removed in one call.
RemoveRules(p) ==
  /\ pc[p] = "remove"
  /\ \E ok \in Outcomes :
       IF ok
       THEN /\ sessionRules' =
                 RemoveIds(sessionRules, { hashCode(request[p].domain),
                                           hashCode(request[p].domain) + 1 })
            /\ UNCHANGED <<adapterFailed, injected, faults>>
       ELSE Rejected(p, TRUE)
  /\ pc' = [pc EXCEPT ![p] = "finish"]
  /\ UNCHANGED <<storageVars, enabledRulesets, compiledPriority, statsCache,
                 cacheTime,
                 request, gelesen, response, stale, scenarioVars, toggles,
                 restarts, toggledSinceRestart>>

\* updateSessionRulesForDomain(domain, false): the initiator rule.
AddIncoming(p) ==
  /\ pc[p] = "add1"
  /\ \E ok \in Outcomes :
       IF ok /\ CanAdd(sessionRules, IncomingRule(request[p].domain))
       THEN /\ sessionRules' =
                 sessionRules \cup {IncomingRule(request[p].domain)}
            /\ pc' = [pc EXCEPT ![p] = "add2"]
            /\ UNCHANGED <<adapterFailed, injected, faults>>
       ELSE /\ Rejected(p, ~ok)
            /\ pc' = [pc EXCEPT ![p] = "finish"]
  /\ UNCHANGED <<storageVars, enabledRulesets, compiledPriority, statsCache,
                 cacheTime,
                 request, gelesen, response, stale, scenarioVars, toggles,
                 restarts, toggledSinceRestart>>

\* updateSessionRulesForDomain(domain, false): the target rule.
AddOutgoing(p) ==
  /\ pc[p] = "add2"
  /\ \E ok \in Outcomes :
       IF ok /\ CanAdd(sessionRules, OutgoingRule(request[p].domain))
       THEN /\ sessionRules' =
                 sessionRules \cup {OutgoingRule(request[p].domain)}
            /\ UNCHANGED <<adapterFailed, injected, faults>>
       ELSE Rejected(p, ~ok)
  /\ pc' = [pc EXCEPT ![p] = "finish"]
  /\ UNCHANGED <<storageVars, enabledRulesets, compiledPriority, statsCache,
                 cacheTime,
                 request, gelesen, response, stale, scenarioVars, toggles,
                 restarts, toggledSinceRestart>>

\* Mutant of UpdateRulesets: the flag is persisted whatever the engine said.
UpdateRulesetsPersistingFirst(p) ==
  /\ pc[p] = "rulesets"
  /\ isEnabled' = request[p].isEnabled
  /\ lastUpdate' = lastUpdate + 1
  /\ \E ok \in Outcomes :
       IF ok
       THEN /\ enabledRulesets' =
                 IF request[p].isEnabled THEN enabledRulesets \cup {"ruleset_1"}
                 ELSE enabledRulesets \ {"ruleset_1"}
            /\ UNCHANGED faults
       ELSE /\ faults' = faults + 1
            /\ UNCHANGED enabledRulesets
  /\ pc' = [pc EXCEPT ![p] = IF p = Startup THEN "idle" ELSE "finish"]
  /\ UNCHANGED <<disabledDomains, sessionRules, compiledPriority, statsCache,
                 cacheTime,
                 request, gelesen, response, flagVars, scenarioVars, toggles,
                 restarts, toggledSinceRestart>>

\* toggleRuleset: await updateEnabledRulesets, then storage.set (not
\* awaited); a rejection skips the write.  Used by the global toggle and by
\* the onStartup listener.
UpdateRulesets(p) ==
  /\ pc[p] = "rulesets"
  /\ \E ok \in Outcomes :
       IF ok
       THEN /\ enabledRulesets' =
                 IF request[p].isEnabled THEN enabledRulesets \cup {"ruleset_1"}
                 ELSE enabledRulesets \ {"ruleset_1"}
            /\ isEnabled' = request[p].isEnabled
            /\ lastUpdate' = lastUpdate + 1
            /\ UNCHANGED faults
       ELSE /\ faults' = faults + 1
            /\ UNCHANGED <<enabledRulesets, isEnabled, lastUpdate>>
  /\ pc' = [pc EXCEPT ![p] = IF p = Startup THEN "idle" ELSE "finish"]
  /\ UNCHANGED <<disabledDomains, sessionRules, compiledPriority, statsCache,
                 cacheTime,
                 request, gelesen, response, flagVars, scenarioVars, toggles,
                 restarts, toggledSinceRestart>>

\* The answer handleToggleBlocking gives once the toggle returned: with a
\* request.tabId the tab is reloaded first, and a rejection of the reload
\* becomes the error response; otherwise the cache is cleared and the answer
\* is success.
Answer(p, tabId, reloaded) ==
  IF request[p].domain # NoDomain /\ tabId # NoTab /\ ~reloaded
  THEN /\ response' = [response EXCEPT ![p] = "error"]
       /\ UNCHANGED statsCache
  ELSE /\ response' = [response EXCEPT ![p] = "success"]
       /\ statsCache' = Null

Finish(p) ==
  /\ pc[p] = "finish"
  /\ \E tabId \in {NoTab, 1} : \E reloaded \in BOOLEAN :
       Answer(p, tabId, reloaded)
  /\ pc' = [pc EXCEPT ![p] = "idle"]
  /\ request' = [request EXCEPT ![p] = NoRequest]
  /\ gelesen' = [gelesen EXCEPT ![p] = NoValue]
  /\ adapterFailed' = [adapterFailed EXCEPT ![p] = FALSE]
  /\ injected' = [injected EXCEPT ![p] = FALSE]
  /\ stale' = [stale EXCEPT ![p] = FALSE]
  /\ UNCHANGED <<storageVars, engineVars, cacheTime, overlapped,
                 initialDomains, initialRules, countVars>>

\* The browser restarts: the worker and its handlers are gone, the session
\* rules are dropped, storage and the enabled rulesets are kept; onStartup
\* fires.
Restart ==
  /\ restarts < MaxRestarts
  /\ restarts' = restarts + 1
  /\ sessionRules' = {}
  /\ statsCache' = Null
  /\ cacheTime' = 0
  /\ pc' = [ p \in AllProcs |-> IF p = Startup THEN "sget" ELSE "idle" ]
  /\ request' = [ p \in AllProcs |-> NoRequest ]
  /\ gelesen' = [ p \in Procs |-> NoValue ]
  /\ response' = [ p \in Procs |-> "none" ]
  /\ adapterFailed' = [ p \in Procs |-> FALSE ]
  /\ injected' = [ p \in Procs |-> FALSE ]
  /\ stale' = [ p \in Procs |-> FALSE ]
  /\ toggledSinceRestart' = FALSE
  /\ UNCHANGED <<storageVars, enabledRulesets, compiledPriority, scenarioVars,
                 toggles, faults>>

\* onStartup listener: await storage.get(['isEnabled']).
StartupGet ==
  /\ pc[Startup] = "sget"
  /\ request' = [request EXCEPT ![Startup] =
                   [ domain |-> NoDomain, isEnabled |-> (isEnabled # FALSE),
                     wellTyped |-> TRUE ]]
  /\ pc' = [pc EXCEPT ![Startup] = "rulesets"]
  /\ UNCHANGED <<storageVars, engineVars, statsCache,
                 cacheTime, gelesen, response,
                 flagVars, scenarioVars, countVars>>

\* ------------------------------------------------- precompileFilterList
\* The line the loop is at: lineEnd, line and trimmed of this iteration.
\* ------------------------------------------------------------ getStats
\* What the onMessage listener hands to sendResponse, with what was
\* persisted when it did.
StatsAnswer(stats) ==
  [ reported |-> [ isEnabled |-> stats.isEnabled,
                   rulesCount |-> stats.rulesCount ],
    afterToggle |-> completed,
    persisted |-> persistedSince ]

\* handleGetStats up to its first await: a fresh cache is the answer.
StatsBegin(g) ==
  /\ spc[g] = "idle"
  /\ Len(answers) + Cardinality({ h \in StatsProcs : spc[h] # "idle" })
       < MaxStats
  /\ IF statsCache.cached /\ clock - cacheTime < STATS_CACHE_DURATION
     THEN /\ answers' = Append(answers, StatsAnswer(statsCache))
          /\ UNCHANGED <<spc, snow>>
     ELSE /\ spc' = [spc EXCEPT ![g] = "get"]
          /\ snow' = [snow EXCEPT ![g] = clock]
          /\ UNCHANGED answers
  /\ UNCHANGED <<clock, sresult, completed, persistedSince, workerVars,
                 outsideStats>>

\* await chrome.storage.local.get(['lastUpdate', 'isEnabled'])
StatsGet(g) ==
  /\ spc[g] = "get"
  /\ sresult' = [sresult EXCEPT ![g] =
                   [ lastUpdate |-> lastUpdate, isEnabled |-> isEnabled ]]
  /\ spc' = [spc EXCEPT ![g] = "rulesets"]
  /\ UNCHANGED <<clock, snow, answers, completed, persistedSince, workerVars,
                 outsideStats>>

\* await getEnabledRulesets(), then the cache is filled and is the answer.
StatsRulesets(g) ==
  /\ spc[g] = "rulesets"
  /\ LET stats ==
           [ cached |-> TRUE,
             rulesCount |-> RulesCount(enabledRulesets),
             lastUpdate |-> IF sresult[g].lastUpdate = 0 THEN clock
                            ELSE sresult[g].lastUpdate,
             isEnabled |-> sresult[g].isEnabled # FALSE ]
     IN  /\ statsCache' = stats
         /\ answers' = Append(answers, StatsAnswer(stats))
  /\ cacheTime' = snow[g]
  /\ spc' = [spc EXCEPT ![g] = "idle"]
  /\ UNCHANGED <<clock, snow, sresult, completed, persistedSince, storageVars,
                 engineVars, handlerVars, flagVars, scenarioVars, countVars,
                 outsideStats>>

\* Time passes.
Tick ==
  /\ clock < MaxTicks * TickMs
  /\ clock' = clock + TickMs
  /\ UNCHANGED <<spc, snow, sresult, answers, completed, persistedSince,
                 workerVars, outsideStats>>

\* --------------------------------------------------------------- popup
\* Mutant of Busy: the listener does not look at the flag.
NeverBusy == FALSE

\* if (gerade_am_togglen)
Busy == gerade_am_togglen

\* Mutant of SignalAborted: the callback does not look at the signal.
SignalNeverAborted(l) == FALSE

\* if (controller.signal.aborted) return, in the callback of sendMessage
SignalAborted(l) == call[l].aborted

\* The user flips the switch and the change listener runs up to its first
\* await: nothing happens while a toggle is being handled; otherwise the
\* flag is set, the UI updated and the toggle message sent.
Change(l) ==
  /\ lpc[l] = "ready"
  /\ \A k \in Changes : k < l => lpc[k] # "ready"
  /\ checked' = ~checked
  /\ IF Busy
     THEN /\ lpc' = [lpc EXCEPT ![l] = "dropped"]
          /\ attempt' = [attempt EXCEPT ![l].before = checked]
          /\ UNCHANGED <<gerade_am_togglen, neuerStatus, call>>
     ELSE /\ gerade_am_togglen' = TRUE
          /\ neuerStatus' = [neuerStatus EXCEPT ![l] = ~checked]
          /\ call' = [call EXCEPT ![l] =
                        StartCall("toggleBlocking", TOGGLE_TIMEOUT)]
          /\ lpc' = [lpc EXCEPT ![l] = "toggle"]
          /\ attempt' = [attempt EXCEPT ![l].before = checked,
                                        ![l].sent = @ + 1]
  /\ UNCHANGED <<statsText, originalText, outsidePopup>>

\* The catch and finally blocks of the listener: the switch is set back,
\* the failure shown (a timer will restore the text), the flag cleared.
Failed(l, why) ==
  /\ checked' = ~neuerStatus[l]
  /\ originalText' = [originalText EXCEPT ![l] = statsText]
  /\ statsText' = "Toggle fehlgeschlagen"
  /\ gerade_am_togglen' = FALSE
  /\ lpc' = [lpc EXCEPT ![l] = "done"]
  /\ attempt' = [attempt EXCEPT ![l].calls = @ + 1, ![l].outcome = why,
                                ![l].shown = ~neuerStatus[l],
                                ![l].reported = "Toggle fehlgeschlagen"]
  /\ UNCHANGED neuerStatus

\* The callback of sendMessage runs with the answer of the background (or
\* with lastError set), and the listener continues to its next await.
Respond(l, r) ==
  LET cleared == [call[l] EXCEPT !.message = "none", !.armed = FALSE]
  IN
  /\ call[l].message # "none"
  /\ IF SignalAborted(l)
     THEN /\ call' = [call EXCEPT ![l] = cleared]
          /\ attempt' = [attempt EXCEPT ![l].late = TRUE]
          /\ UNCHANGED <<gerade_am_togglen, checked, statsText, lpc,
                         neuerStatus, originalText>>
     ELSE IF call[l].message = "toggleBlocking"
     THEN IF lpc[l] # "toggle"
          THEN /\ call' = [call EXCEPT ![l] = cleared]
               /\ attempt' = [attempt EXCEPT ![l].calls = @ + 1,
                                             ![l].late = TRUE]
               /\ UNCHANGED <<gerade_am_togglen, checked, statsText, lpc,
                              neuerStatus, originalText>>
          ELSE IF r = "lastError"
          THEN /\ call' = [call EXCEPT ![l] = cleared]
               /\ Failed(l, "lastError")
          ELSE /\ attempt' = [attempt EXCEPT ![l].calls = @ + 1,
                                             ![l].outcome = r,
                                             ![l].shown = checked]
               /\ statsText' = "Lade..."
               /\ call' = [call EXCEPT ![l] =
                             StartCall("getStats", STATS_TIMEOUT)]
               /\ lpc' = [lpc EXCEPT ![l] = "refresh"]
               /\ UNCHANGED <<gerade_am_togglen, checked, neuerStatus,
                              originalText>>
     ELSE IF lpc[l] # "refresh"
          THEN /\ call' = [call EXCEPT ![l] = cleared]
               /\ UNCHANGED <<gerade_am_togglen, checked, statsText, lpc,
                              neuerStatus, originalText, attempt>>
          ELSE /\ call' = [call EXCEPT ![l] = cleared]
               /\ statsText' = CASE r = "result" -> "Aktive Filterregeln"
                                  [] r = "error" -> "Filterregeln"
                                  [] OTHER -> "Statistiken werden geladen..."
               /\ gerade_am_togglen' = FALSE
               /\ lpc' = [lpc EXCEPT ![l] = "done"]
               /\ UNCHANGED <<checked, neuerStatus, originalText, attempt>>
  /\ UNCHANGED outsidePopup

\* The timer of createTimeoutMessage fires: the controller aborts, the
\* promise is rejected, the listener continues in its catch block
\* (refreshStats in its own, after which the listener returns).
Timeout(l) ==
  /\ call[l].armed
  /\ call[l].elapsed >= call[l].timeoutMs
  /\ call' = [call EXCEPT ![l].armed = FALSE, ![l].aborted = TRUE]
  /\ IF lpc[l] = "toggle"
     THEN Failed(l, "timeout")
     ELSE /\ statsText' = "Statistiken werden geladen..."
          /\ gerade_am_togglen' = FALSE
          /\ lpc' = [lpc EXCEPT ![l] = "done"]
          /\ UNCHANGED <<checked, neuerStatus, originalText, attempt>>
  /\ UNCHANGED outsidePopup

\* setTimeout(() => statsDisplay.textContent = originalText, 2000)
RestoreText(l) ==
  /\ originalText[l] # "none"
  /\ statsText' = originalText[l]
  /\ originalText' = [originalText EXCEPT ![l] = "none"]
  /\ UNCHANGED <<gerade_am_togglen, checked, lpc, neuerStatus, call, attempt,
                 outsidePopup>>

\* Time passes, up to the moment the next timer is due.
PopupTick ==
  /\ \E l \in Changes : call[l].armed
  /\ ~ \E l \in Changes :
         call[l].armed /\ call[l].elapsed >= call[l].timeoutMs
  /\ call' = [ l \in Changes |->
                IF call[l].armed
                THEN [call[l] EXCEPT !.elapsed =
                        IF @ + TickMs > call[l].timeoutMs
                        THEN call[l].timeoutMs ELSE @ + TickMs]
                ELSE call[l] ]
  /\ UNCHANGED <<gerade_am_togglen, checked, statsText, lpc, neuerStatus,
                 originalText, attempt, outsidePopup>>

ThisLineEnd == LineEndFrom(filterText.text, lineStart)
ThisLine == DropCR(Substring(filterText.text, lineStart, ThisLineEnd))
ThisTrimmed == Trimmed(ThisLine)

\* while (lineStart < textLength)
Scanning == cpc = "loop" /\ lineStart < Len(filterText.text)

\* How often the loop has been at this line already.
Rescans == Cardinality({ k \in 1..Len(scanned) : scanned[k].from = lineStart })

\* What the history keeps of an iteration: the line's bounds and the
\* counters as the iteration leaves them.
Noted ==
  scanned' = Append(scanned,
               [ from |-> lineStart, to |-> ThisLineEnd,
                 rules |-> Len(rules'), processedRules |-> processedRules',
                 skippedLines |-> skippedLines', errors |-> errors' ])

\* if (typeof filterText !== 'string') throw new Error(...)
Throw ==
  /\ cpc = "call"
  /\ ~IsString(filterText)
  /\ cpc' = "threw"
  /\ UNCHANGED <<filterText, options, localVars, result, scanned, run,
                 previous, outsideCompiler>>

\* Mutant of ReturnEmpty: the empty text is refused like a non-string.
ReturnEmptyAsError ==
  /\ cpc = "call"
  /\ IsString(filterText)
  /\ Len(filterText.text) = 0
  /\ cpc' = "threw"
  /\ UNCHANGED <<filterText, options, localVars, result, scanned, run,
                 previous, outsideCompiler>>

\* if (filterText.length === 0) return { rules: [], stats: {0, 0, 0, 0} }
ReturnEmpty ==
  /\ cpc = "call"
  /\ IsString(filterText)
  /\ Len(filterText.text) = 0
  /\ result' = Returned(<<>>, Stats(0, 0, 0, 0))
  /\ cpc' = "returned"
  /\ UNCHANGED <<filterText, options, localVars, scanned, run, previous,
                 outsideCompiler>>

\* Mutant of Enter: the id counter outlives the call.
EnterKeepingRuleId ==
  /\ cpc = "call"
  /\ IsString(filterText)
  /\ Len(filterText.text) # 0
  /\ rules' = <<>>
  /\ ruleId' = IF run = 1 THEN StartId(options) ELSE ruleId
  /\ processedRules' = 0
  /\ skippedLines' = 0
  /\ errors' = 0
  /\ lineStart' = 0
  /\ cpc' = "loop"
  /\ UNCHANGED <<filterText, options, result, scanned, run, previous,
                 outsideCompiler>>

\* The declarations up to the loop: rules, ruleId, the counters, lineStart.
Enter ==
  /\ cpc = "call"
  /\ IsString(filterText)
  /\ Len(filterText.text) # 0
  /\ rules' = <<>>
  /\ ruleId' = StartId(options)
  /\ processedRules' = 0
  /\ skippedLines' = 0
  /\ errors' = 0
  /\ lineStart' = 0
  /\ cpc' = "loop"
  /\ UNCHANGED <<filterText, options, result, scanned, run, previous,
                 outsideCompiler>>

\* One iteration on an empty line or a comment.
SkipIgnorable ==
  /\ Scanning
  /\ LET trimmed == ThisTrimmed
         domain == DomainOf(trimmed)
     IN
       /\ IsIgnorable(trimmed)
       /\ skippedLines' = SkipLine(skippedLines)
       /\ lineStart' = ThisLineEnd + 1
       /\ UNCHANGED <<rules, ruleId, processedRules, errors>>
       /\ Noted
       /\ UNCHANGED <<filterText, options, cpc, result, run, previous,
                      outsideCompiler>>

\* One iteration on an anchored line whose body is out of bounds:
\* skippedLines++; continue; -- the continue goes back to the loop test
\* past lineStart = lineEnd + 1, so lineStart stays where it is.
SkipOutOfBounds ==
  /\ Scanning
  /\ LET trimmed == ThisTrimmed
         domain == DomainOf(trimmed)
     IN
       /\ ~IsIgnorable(trimmed)
       /\ IsAnchored(trimmed)
       /\ OutOfBounds(domain)
       /\ Rescans < MaxRescans
       /\ skippedLines' = SkipLine(skippedLines)
       /\ UNCHANGED <<rules, ruleId, processedRules, errors, lineStart>>
       /\ Noted
       /\ UNCHANGED <<filterText, options, cpc, result, run, previous,
                      outsideCompiler>>

\* One iteration on a pattern the validation passes: a rule is pushed.
AddRule ==
  /\ Scanning
  /\ LET trimmed == ThisTrimmed
         domain == DomainOf(trimmed)
     IN
       /\ ~IsIgnorable(trimmed)
       /\ IsAnchored(trimmed)
       /\ ~OutOfBounds(domain)
       /\ IsValid(domain)
       /\ rules' = Append(rules, CompiledRule(ruleId,
                                              RulePriority(options.priority),
                                              trimmed))
       /\ ruleId' = NextRuleId(ruleId)
       /\ processedRules' = processedRules + 1
       /\ lineStart' = ThisLineEnd + 1
       /\ UNCHANGED <<skippedLines, errors>>
       /\ Noted
       /\ UNCHANGED <<filterText, options, cpc, result, run, previous,
                      outsideCompiler>>

\* One iteration on an anchored line with '*', '/' or NUL in its body.
SkipInvalid ==
  /\ Scanning
  /\ LET trimmed == ThisTrimmed
         domain == DomainOf(trimmed)
     IN
       /\ ~IsIgnorable(trimmed)
       /\ IsAnchored(trimmed)
       /\ ~OutOfBounds(domain)
       /\ ~IsValid(domain)
       /\ skippedLines' = SkipLine(skippedLines)
       /\ lineStart' = ThisLineEnd + 1
       /\ UNCHANGED <<rules, ruleId, processedRules, errors>>
       /\ Noted
       /\ UNCHANGED <<filterText, options, cpc, result, run, previous,
                      outsideCompiler>>

\* One iteration on any other line.
SkipMalformed ==
  /\ Scanning
  /\ LET trimmed == ThisTrimmed
         domain == DomainOf(trimmed)
     IN
       /\ ~IsIgnorable(trimmed)
       /\ ~IsAnchored(trimmed)
       /\ skippedLines' = SkipLine(skippedLines)
       /\ lineStart' = ThisLineEnd + 1
       /\ UNCHANGED <<rules, ruleId, processedRules, errors>>
       /\ Noted
       /\ UNCHANGED <<filterText, options, cpc, result, run, previous,
                      outsideCompiler>>

\* The loop test fails: totalLines, stats, return { rules, stats }.
\* (Nothing in the try block can throw on a string, so the catch block,
\* the only place that counts an error, has no step.)
Return ==
  /\ cpc = "loop"
  /\ ~(lineStart < Len(filterText.text))
  /\ result' = Returned(rules, Stats(TotalLines(processedRules, skippedLines),
                                     processedRules, skippedLines, errors))
  /\ cpc' = "returned"
  /\ UNCHANGED <<filterText, options, localVars, scanned, run, previous,
                 outsideCompiler>>

\* The caller compiles the same input again.
Again ==
  /\ cpc \in {"returned", "threw"}
  /\ run < MaxRuns
  /\ run' = run + 1
  /\ previous' = result
  /\ result' = NoResult
  /\ scanned' = <<>>
  /\ cpc' = "call"
  /\ UNCHANGED <<filterText, options, localVars, outsideCompiler>>

\* ------------------------------------------------------- specifications
\* toggleBlocking messages: with a domain (per-domain toggle) or without
\* (global toggle).
DomainRequests == Domains \X BOOLEAN
GlobalRequests == {NoDomain} \X BOOLEAN

Step(p) ==
  \/ StorageGet(p)
  \/ StorageSet(p)
  \/ RemoveRules(p)
  \/ AddIncoming(p)
  \/ AddOutgoing(p)

\* The worker from installation on: two callers, restarts, engine faults.
Next ==
  \/ \E p \in Procs : \E r \in DomainRequests \cup GlobalRequests :
       /\ toggles < MaxToggles
       /\ Begin(p, r[1], r[2])
       /\ UNCHANGED <<log, overlapped, outsideWorker>>
  \/ \E p \in Procs :
       toggles < MaxToggles /\ InvalidRequest(p) /\ UNCHANGED outsideWorker
  \/ \E p \in Procs : Step(p) /\ UNCHANGED outsideWorker
  \/ \E p \in Procs : Finish(p) /\ UNCHANGED <<log, outsideWorker>>
  \/ \E p \in AllProcs : UpdateRulesets(p) /\ UNCHANGED outsideWorker
  \/ Restart /\ UNCHANGED outsideWorker
  \/ StartupGet /\ UNCHANGED outsideWorker

Spec == Init /\ [][Next]_vars

\* What a scenario remembers of a request once it is answered.
Entry(p) ==
  [ proc |-> p, request |-> request[p], response |-> response'[p],
    adapterFailed |-> adapterFailed[p], injected |-> injected[p],
    stale |-> stale[p], before |-> gelesen[p] ]

BeginLogged(p, r) ==
  /\ Begin(p, r[1], r[2])
  /\ overlapped' = (overlapped \/ \E q \in Procs \ {p} : pc[q] # "idle")
  /\ UNCHANGED log

FinishLogged(p) ==
  /\ Finish(p)
  /\ log' = Append(log, Entry(p))

\* Two callers, one per-domain request each, which may overlap.
NextPair ==
  \/ \E p \in Procs : \E r \in DomainRequests :
       /\ \A i \in 1..Len(log) : log[i].proc # p
       /\ BeginLogged(p, r)
       /\ UNCHANGED outsideWorker
  \/ \E p \in Procs : Step(p) /\ UNCHANGED outsideWorker
  \/ \E p \in Procs : FinishLogged(p) /\ UNCHANGED outsideWorker

SpecPair == InitPair /\ [][NextPair]_vars

\* One caller, MaxSeq per-domain requests one after the other.
NextSeq ==
  \/ \E r \in DomainRequests :
       Len(log) < MaxSeq /\ BeginLogged(1, r) /\ UNCHANGED outsideWorker
  \/ Step(1) /\ UNCHANGED outsideWorker
  \/ FinishLogged(1) /\ UNCHANGED outsideWorker

SpecSeq == InitSeq /\ [][NextSeq]_vars

\* The worker woken with any ExemptionSet: two callers of the global toggle,
\* restarts, engine faults.
NextGlobal ==
  \/ \E p \in Procs : \E r \in GlobalRequests :
       /\ toggles < MaxToggles
       /\ Begin(p, r[1], r[2])
       /\ UNCHANGED <<log, overlapped, outsideWorker>>
  \/ \E p \in AllProcs : UpdateRulesets(p) /\ UNCHANGED outsideWorker
  \/ \E p \in Procs : Finish(p) /\ UNCHANGED <<log, outsideWorker>>
  \/ Restart /\ UNCHANGED outsideWorker
  \/ StartupGet /\ UNCHANGED outsideWorker

SpecGlobal == InitPair /\ [][NextGlobal]_vars

\* One caller from installation on, MaxCollide per-domain requests one
\* after the other, among domains whose hashes are equal ("an", "c0") or
\* adjacent ("an", "ao").
CollidingDomains == { <<97, 110>>, <<97, 111>>, <<99, 48>> }

NextCollide ==
  \/ \E r \in CollidingDomains \X BOOLEAN :
       Len(log) < MaxCollide /\ BeginLogged(1, r) /\ UNCHANGED outsideWorker
  \/ Step(1) /\ UNCHANGED outsideWorker
  \/ FinishLogged(1) /\ UNCHANGED outsideWorker

SpecCollide == Init /\ [][NextCollide]_vars

\* The precompiler called on any input, MaxRuns times over.
InitCompile ==
  /\ disabledDomains = NoValue
  /\ isEnabled = TRUE
  /\ lastUpdate = 0
  /\ enabledRulesets = {"ruleset_1"}
  /\ sessionRules = {}
  /\ compiledPriority = RulePriority(1)
  /\ InitHandlers
  /\ filterText \in Inputs
  /\ options \in CompileOptions
  /\ cpc = "call"
  /\ rules = <<>>
  /\ ruleId = 0
  /\ processedRules = 0
  /\ skippedLines = 0
  /\ errors = 0
  /\ lineStart = 0
  /\ result = NoResult
  /\ scanned = <<>>
  /\ run = 1
  /\ previous = NoResult
  /\ NotHashing
  /\ NoStats
  /\ NoPopup

NextCompile ==
  \/ Throw
  \/ ReturnEmpty
  \/ Enter
  \/ SkipIgnorable
  \/ SkipOutOfBounds
  \/ AddRule
  \/ SkipInvalid
  \/ SkipMalformed
  \/ Return
  \/ Again

SpecCompile == InitCompile /\ [][NextCompile]_vars

\* hashCode called on any string of up to MaxHashLen characters.
InitHash ==
  /\ disabledDomains = NoValue
  /\ isEnabled = TRUE
  /\ lastUpdate = 0
  /\ enabledRulesets = {"ruleset_1"}
  /\ sessionRules = {}
  /\ compiledPriority = RulePriority(1)
  /\ InitHandlers
  /\ NotCompiling
  /\ hashArg \in StringsUpTo(MaxHashLen)
  /\ hashReturned = NoHash
  /\ NoStats
  /\ NoPopup

HashCall ==
  /\ ~hashReturned.done
  /\ hashReturned' = [ done |-> TRUE, value |-> hashCode(hashArg) ]
  /\ UNCHANGED <<hashArg, outsideHash>>

NextHash == HashCall

SpecHash == InitHash /\ [][NextHash]_vars

\* The worker from installation on: one caller of the global toggle, two
\* getStats handlers, the clock.
NextStats ==
  \/ \E r \in GlobalRequests :
       /\ toggles < MaxToggles
       /\ Begin(1, r[1], r[2])
       /\ UNCHANGED <<log, overlapped, outsideWorker>>
  \/ /\ UpdateRulesets(1)
     /\ persistedSince' =
          IF completed
          THEN persistedSince \cup
                 { [ isEnabled |-> isEnabled',
                     rulesCount |-> RulesCount(enabledRulesets') ] }
          ELSE persistedSince
     /\ UNCHANGED <<clock, spc, snow, sresult, answers, completed,
                    outsideStats>>
  \/ /\ Finish(1)
     /\ completed' = TRUE
     /\ persistedSince' = {Persisted}
     /\ UNCHANGED <<log, clock, spc, snow, sresult, answers, outsideStats>>
  \/ \E g \in StatsProcs : StatsBegin(g)
  \/ \E g \in StatsProcs : StatsGet(g)
  \/ \E g \in StatsProcs : StatsRulesets(g)
  \/ Tick

SpecStats == Init /\ [][NextStats]_vars

\* The popup, the switch showing either state, and a background that
\* answers every message in any way, at any time or never.
InitPopup ==
  /\ disabledDomains = NoValue
  /\ isEnabled = TRUE
  /\ lastUpdate = 0
  /\ enabledRulesets = {"ruleset_1"}
  /\ sessionRules = {}
  /\ compiledPriority = RulePriority(1)
  /\ InitHandlers
  /\ NotCompiling
  /\ NotHashing
  /\ NoStats
  /\ checked \in BOOLEAN
  /\ PopupReady

NextPopup ==
  \/ \E l \in Changes : Change(l)
  \/ \E l \in Changes : \E r \in Responses : Respond(l, r)
  \/ \E l \in Changes : Timeout(l)
  \/ \E l \in Changes : RestoreText(l)
  \/ PopupTick

SpecPopup == InitPopup /\ [][NextPopup]_vars

\* --------------------------------------------------------------- claims
\* The last two answered requests of a scenario, once the caller is idle.
Last == log[Len(log)]
Previous == log[Len(log) - 1]
TwoInARow == Len(log) >= 2 /\ \A p \in Procs : pc[p] = "idle"

\* What a request asks for, on a list: d appended if absent (disable
\* blocking), d taken out (enable blocking).
Requested(list, d, en) ==
  IF en THEN SelectSeq(list, LAMBDA x : x # d)
  ELSE IF d \in Elements(list) THEN list
  ELSE list \o <<d>>

\* The two override rules of a domain, by their fields.
IsIncomingOf(r, d) ==
  /\ r.id = hashCode(d)
  /\ r.action = "allow"
  /\ r.condition = "initiatorDomains"
  /\ r.domain = d

IsOutgoingOf(r, d) ==
  /\ r.id = hashCode(d) + 1
  /\ r.action = "allow"
  /\ r.condition = "requestDomains"
  /\ r.domain = d

BothInstalled(d) ==
  /\ \E r \in sessionRules : IsIncomingOf(r, d)
  /\ \E r \in sessionRules : IsOutgoingOf(r, d)

\* C1: while no handler runs and the browser was never restarted, every
\* domain of the persisted ExemptionSet has both of its allow rules in the
\* session-rule table, also after rejected adapter calls.
C1_ExemptedHaveBothRules ==
  (Idle /\ restarts = 0) =>
    \A d \in Members(disabledDomains) : BothInstalled(d)

\* C2: while no handler runs, a domain outside the persisted ExemptionSet
\* has no override rule in the session-rule table; stated for the runs in
\* which the engine rejects nothing of its own accord, overlapping toggles
\* included.
C2_BlockedHaveNoRule ==
  (Idle /\ faults = 0) =>
    \A d \in Domains \ Members(disabledDomains) :
      ~ \E r \in sessionRules : r.domain = d

\* C3: after two requests for two different domains have both been
\* answered, each domain is in the ExemptionSet exactly if its own caller
\* asked for enabled = false.
C3_DifferentDomainsIndependent ==
  (Len(log) = 2 /\ log[1].request.domain # log[2].request.domain) =>
    \A i \in 1..2 :
      (log[i].request.domain \in Members(disabledDomains))
        <=> ~log[i].request.isEnabled

\* C4 as stated: after two requests for the same domain have both been
\* answered, the persisted list equals what one of the two requests makes
\* of the initial list.
C4_FinalListIsOneRequestsResult ==
  (Len(log) = 2 /\ log[1].request.domain = log[2].request.domain) =>
    \E i \in 1..2 :
      OrEmpty(disabledDomains) =
        Requested(OrEmpty(initialDomains), log[i].request.domain,
                  log[i].request.isEnabled)

\* C4 amended: ... the persisted list has the same members as what one of
\* the two requests makes of the initial list (the order may differ).
C4_FinalMembersAreOneRequestsResult ==
  (Len(log) = 2 /\ log[1].request.domain = log[2].request.domain) =>
    \E i \in 1..2 :
      Members(disabledDomains) =
        IF log[i].request.isEnabled
        THEN Members(initialDomains) \ {log[i].request.domain}
        ELSE Members(initialDomains) \cup {log[i].request.domain}

\* C4 witness: two overlapping requests for one domain, one to exempt and
\* one to block it, both answered, other domains being exempted as well.
C4_Witness ==
  /\ Len(log) = 2
  /\ overlapped
  /\ log[1].request.domain = log[2].request.domain
  /\ log[1].request.isEnabled # log[2].request.isEnabled
  /\ Members(initialDomains) \ {log[1].request.domain} # {}

\* C5: once the onStartup handling of a restart has completed (and before
\* any further request), every domain of the ExemptionSet has both of its
\* allow rules in the session-rule table again.
C5_ColdStartReinstalls ==
  (restarts > 0 /\ Idle /\ ~toggledSinceRestart) =>
    \A d \in Members(disabledDomains) : BothInstalled(d)

\* C6: after the same request twice in a row, no engine fault occurring:
\* for enabled = false the table holds exactly the rule pair of d and d is
\* once in the list; for enabled = true d is not in the list and the table
\* holds no rule of d.
C6_Idempotent ==
  ( /\ TwoInARow
    /\ Previous.request = Last.request
    /\ ~Previous.injected /\ ~Last.injected ) =>
    LET d == Last.request.domain
        list == OrEmpty(disabledDomains)
    IN  IF Last.request.isEnabled
        THEN /\ d \notin Elements(list)
             /\ ~ \E r \in sessionRules : r.domain = d
        ELSE /\ Cardinality({ i \in 1..Len(list) : list[i] = d }) = 1
             /\ BothInstalled(d)
             /\ Cardinality({ r \in sessionRules : r.domain = d }) = 2

\* C7: for a domain d that is not exempted, a request to exempt d followed
\* by a request to block d again (whose remove call the engine accepts)
\* leaves the persisted list as it was, in contents and order, and no rule
\* with either of d's two ids in the table.
C7_RoundTrip ==
  ( /\ TwoInARow
    /\ Previous.request.domain = Last.request.domain
    /\ ~Previous.request.isEnabled
    /\ Last.request.isEnabled
    /\ Last.request.domain \notin Members(Previous.before)
    /\ ~Last.injected ) =>
    /\ OrEmpty(disabledDomains) = OrEmpty(Previous.before)
    /\ ~ \E r \in sessionRules :
           r.id \in { hashCode(Last.request.domain),
                      hashCode(Last.request.domain) + 1 }

\* C7 witness: such a round trip on a non-empty list, in which the first
\* request did install both rules.
C7_Witness ==
  /\ TwoInARow
  /\ Previous.request.domain = Last.request.domain
  /\ ~Previous.request.isEnabled
  /\ Last.request.isEnabled
  /\ Last.request.domain \notin Members(Previous.before)
  /\ ~Previous.adapterFailed
  /\ ~Last.injected
  /\ Len(OrEmpty(Previous.before)) >= 2

\* C8: a per-domain toggle during which an adapter add or remove call
\* rejected is answered with an error.
C8_AdapterFailureReported ==
  \A i \in 1..Len(log) :
    log[i].adapterFailed => log[i].response = "error"

\* C9: a toggle that wrote the list back over a value it had not read is
\* answered with an error.
C9_RaceLossReported ==
  \A i \in 1..Len(log) :
    log[i].stale => log[i].response = "error"

\* C10: a successful transition of a blocked domain d to exempted adds
\* exactly two rules, the initiator rule with id hash(d) and the target rule
\* with id hash(d) + 1, both allow rules with a priority above that of the
\* compiled block rules.
C10_PairAboveBlockRules ==
  ( /\ Len(log) = 1
    /\ pc[1] = "idle"
    /\ ~log[1].request.isEnabled
    /\ log[1].request.domain \notin Members(log[1].before)
    /\ ~log[1].adapterFailed
    /\ log[1].response = "success" ) =>
    LET d == log[1].request.domain
        added == sessionRules \ initialRules
    IN  /\ Cardinality(added) = 2
        /\ \E r \in added : IsIncomingOf(r, d)
        /\ \E r \in added : IsOutgoingOf(r, d)
        /\ \A r \in added : r.priority > compiledPriority

\* The two override ids of a domain.
OverrideIds(d) == { hashCode(d), hashCode(d) + 1 }

\* C11: the override ids of every exempted domain are disjoint from the ids
\* of the compiled rules and from the override ids of every other exempted
\* domain.
C11_OverrideIdsDisjoint ==
  \A d \in Members(disabledDomains) :
    /\ OverrideIds(d) \cap ShippedRuleIds = {}
    /\ \A e \in Members(disabledDomains) \ {d} :
         OverrideIds(d) \cap OverrideIds(e) = {}

\* C12: the ids a request to block d again removes are the ids the rules of
\* d were added with: once such a request is answered (its remove call
\* accepted), no rule naming d is left in the table; and every rule in the
\* table has the id derived from the domain it names, the target rule the
\* id of the initiator rule plus one.
C12_RemovedIdsAreAddedIds ==
  /\ \A r \in sessionRules :
       r.id = IF r.condition = "requestDomains"
              THEN hashCode(r.domain) + 1 ELSE hashCode(r.domain)
  /\ ( /\ Len(log) >= 1
       /\ pc[1] = "idle"
       /\ Last.request.isEnabled
       /\ ~Last.injected ) =>
       ~ \E r \in sessionRules : r.domain = Last.request.domain

\* C12 witness: a domain was exempted, both of its rules being added, and
\* blocked again by the next request.
C12_Witness ==
  /\ TwoInARow
  /\ Previous.request.domain = Last.request.domain
  /\ ~Previous.request.isEnabled
  /\ ~Previous.adapterFailed
  /\ Last.request.isEnabled
  /\ ~Last.injected

\* ---- the precompiler, by what a line of the input is
\* The k-th line the loop was at, as it stands in the text between two
\* line feeds.
SourceLine(k) == SubSeq(filterText.text, scanned[k].from + 1, scanned[k].to)

\* A line without the spaces, tabs and carriage returns at its two ends.
RECURSIVE StripLeft(_)
StripLeft(line) ==
  IF line # <<>> /\ Head(line) \in {SPACE, TAB, CR}
  THEN StripLeft(Tail(line))
  ELSE line
RECURSIVE StripRight(_)
StripRight(line) ==
  IF line # <<>> /\ line[Len(line)] \in {SPACE, TAB, CR}
  THEN StripRight(SubSeq(line, 1, Len(line) - 1))
  ELSE line
Strip(line) == StripRight(StripLeft(line))

\* Empty or a comment; a domain pattern the validator takes.
Ignorable(t) == t = <<>> \/ Head(t) \in {HASH, BANG, LBRACKET}
WellFormed(t) ==
  /\ Len(t) > 4
  /\ SubSeq(t, 1, 2) = <<PIPE, PIPE>>
  /\ t[Len(t)] = CARET
  /\ Len(t) - 3 >= 1
  /\ Len(t) - 3 <= MAX_FILTER_LENGTH
  /\ \A i \in 3..(Len(t) - 1) : t[i] \notin {STAR, SLASH, NUL}

\* The counters as the k-th iteration found them, and whether it made a
\* rule.
Before(k) ==
  IF k = 1
  THEN [ rules |-> 0, processedRules |-> 0, skippedLines |-> 0, errors |-> 0 ]
  ELSE [ rules |-> scanned[k - 1].rules,
         processedRules |-> scanned[k - 1].processedRules,
         skippedLines |-> scanned[k - 1].skippedLines,
         errors |-> scanned[k - 1].errors ]
MadeRule(k) == scanned[k].rules = Before(k).rules + 1
LineFeeds == { i \in 1..Len(filterText.text) : filterText.text[i] = LF }

\* C13: no line stalls the compilation: every iteration of the line loop
\* goes on to a later line than the iteration before it, whatever it did
\* with that line, so the loop ends on every finite text.
C13_EveryLineIsLeftBehind ==
  \A k \in 2..Len(scanned) : scanned[k].from > scanned[k - 1].from

\* C14 as claimed: in every result processedRules + skippedLines is
\* totalLines, and totalLines is the number of lines the text splits into
\* at its line feeds.
C14_TotalIsSplitCount ==
  cpc = "returned" =>
    /\ result.stats.processedRules + result.stats.skippedLines
         = result.stats.totalLines
    /\ result.stats.totalLines = Cardinality(LineFeeds) + 1

\* C14 as the code has it: in every result processedRules + skippedLines
\* is totalLines, and totalLines is the number of lines the text splits
\* into at its line feeds, an empty last line (the empty text; what
\* follows a final line feed) not counted.
C14_TotalIsLineCount ==
  cpc = "returned" =>
    /\ result.stats.processedRules + result.stats.skippedLines
         = result.stats.totalLines
    /\ result.stats.totalLines =
         Cardinality(LineFeeds)
           + (IF Len(filterText.text) \in LineFeeds \cup {0} THEN 0 ELSE 1)

\* C14 witness: a text ending in a line feed compiled to a rule and a
\* skipped line.
C14_Witness ==
  /\ cpc = "returned"
  /\ Len(filterText.text) \in LineFeeds
  /\ result.stats.processedRules >= 1
  /\ result.stats.skippedLines >= 1

\* C15: an iteration adds a rule exactly if its line, stripped, is not
\* ignorable and is a well-formed pattern: longer than 4, "||" ... "^",
\* a body of 1 to MAX_FILTER_LENGTH characters, none of '*', '/', NUL.
C15_RuleIffWellFormed ==
  \A k \in 1..Len(scanned) :
    LET t == Strip(SourceLine(k))
    IN  /\ MadeRule(k) <=> (~Ignorable(t) /\ WellFormed(t))
        /\ ~MadeRule(k) => scanned[k].rules = Before(k).rules

\* C15 witness: "||ads.example.com^" gave a rule, "||example.com/path^"
\* after it none.
C15_Witness ==
  /\ cpc = "returned"
  /\ Len(scanned) = 2
  /\ SourceLine(1) = AdsLine
  /\ MadeRule(1)
  /\ SourceLine(2) = PathLine
  /\ ~MadeRule(2)
  /\ Len(result.rules) = 1

\* C16 as claimed: the ids of the returned rules are options.startId,
\* options.startId + 1, ... in the order of the list.
C16_IdsFromOptionsStartId ==
  cpc = "returned" =>
    /\ Len(result.rules) = result.stats.processedRules
    /\ \A k \in 1..Len(result.rules) :
         result.rules[k].id = options.startId + k - 1

\* C16 as the code has it: the ids of the returned rules are first,
\* first + 1, ... in the order of the list, where first is
\* options.startId, and 1 when options.startId is 0.
C16_IdsFromStartIdOrOne ==
  cpc = "returned" =>
    /\ Len(result.rules) = result.stats.processedRules
    /\ \A k \in 1..Len(result.rules) :
         result.rules[k].id =
           (IF options.startId = 0 THEN 1 ELSE options.startId) + k - 1

\* C16 witness: two rules compiled from startId 7.
C16_Witness ==
  /\ cpc = "returned"
  /\ options.startId = 7
  /\ Len(result.rules) >= 2

\* C17: a compilation of the same text with the same options ends as the
\* compilation before it did: the same rules and the same stats, or no
\* result again.
C17_SameResultAgain ==
  (run > 1 /\ cpc \in {"returned", "threw"}) => result = previous

\* C17 witness: a second compilation returned two rules or more, with ids
\* from 7 on.
C17_Witness ==
  /\ run > 1
  /\ cpc = "returned"
  /\ options.startId = 7
  /\ Len(result.rules) >= 2

\* C18: the urlFilter of the rule an iteration adds is its line without
\* the spaces, tabs and carriage returns at its two ends, and nothing else
\* changed: the anchors kept, the case kept.
C18_UrlFilterIsStrippedLine ==
  \A k \in 1..Len(scanned) :
    MadeRule(k) =>
      /\ rules[scanned[k].rules].urlFilter = Strip(SourceLine(k))
      /\ rules[scanned[k].rules].action = "block"

\* C18 witness: the padded mixed-case line, ended by CRLF, gave the rule
\* "||Ads.Example.COM^".
C18_Witness ==
  /\ cpc = "returned"
  /\ \E k \in 1..Len(scanned) :
       /\ SourceLine(k) = PaddedLine \o <<CR>>
       /\ MadeRule(k)
       /\ result.rules[scanned[k].rules].urlFilter =
            SubSeq(PaddedLine, 3, Len(PaddedLine) - 2)

\* C19: an iteration on an ignorable line adds one to skippedLines and
\* leaves the rules, processedRules and errors as they were; and errors
\* never exceeds skippedLines, in the loop and in every result.
C19_IgnorableOnlySkipped ==
  /\ \A k \in 1..Len(scanned) :
       Ignorable(Strip(SourceLine(k))) =>
         /\ scanned[k].skippedLines = Before(k).skippedLines + 1
         /\ scanned[k].rules = Before(k).rules
         /\ scanned[k].processedRules = Before(k).processedRules
         /\ scanned[k].errors = Before(k).errors
  /\ errors <= skippedLines
  /\ result.stats.errors <= result.stats.skippedLines

\* C19 witness: a comment and an empty line were skipped, a rule was made.
C19_Witness ==
  /\ cpc = "returned"
  /\ \E k \in 1..Len(scanned) : SourceLine(k) = CommentLine
  /\ \E k \in 1..Len(scanned) : SourceLine(k) = <<>>
  /\ result.stats.skippedLines = 2

\* C20: a call on anything but a string throws at once: no line is
\* scanned, no rule made, nothing returned.
C20_NonStringThrows ==
  filterText.type # "string" =>
    /\ cpc \in {"call", "threw"}
    /\ scanned = <<>>
    /\ rules = <<>>
    /\ ~result.returned

\* C20 witness: the call on null has thrown.
C20_Witness ==
  /\ filterText.type = "null"
  /\ cpc = "threw"
  /\ run = 1

\* C21: compiling the empty string is no error: the call returns, without
\* scanning a line, an empty rule list and stats that are all 0.
C21_EmptyTextCompilesToNothing ==
  (filterText.type = "string" /\ filterText.text = <<>>) =>
    /\ cpc \in {"call", "returned"}
    /\ scanned = <<>>
    /\ cpc = "returned" =>
         /\ result.returned
         /\ result.rules = <<>>
         /\ result.stats = [ totalLines |-> 0, processedRules |-> 0,
                             skippedLines |-> 0, errors |-> 0 ]

\* C21 witness: the call on the empty string has returned.
C21_Witness ==
  /\ filterText.type = "string"
  /\ filterText.text = <<>>
  /\ cpc = "returned"
  /\ result.returned

\* C24: a per-domain toggle run to completion changes nothing of another
\* domain: for every other domain its membership in the ExemptionSet and
\* its rules in the session-rule table are as they were before, and the
\* global flag and the enabled rulesets are untouched.
C24_OtherDomainsUntouched ==
  (Len(log) = 1 /\ pc[1] = "idle") =>
    /\ \A e \in Domains \ {Last.request.domain} :
         /\ e \in Members(disabledDomains) <=> e \in Members(initialDomains)
         /\ { r \in sessionRules : r.domain = e }
              = { r \in initialRules : r.domain = e }
    /\ isEnabled = TRUE
    /\ enabledRulesets = {"ruleset_1"}

\* C27: while no handler runs, every domain has both of its override rules
\* in the session-rule table or none of them, also after rejected adapter
\* calls.
C27_RulesComeInPairs ==
  Idle =>
    \A d \in Domains :
      (\E r \in sessionRules : IsIncomingOf(r, d))
        <=> (\E r \in sessionRules : IsOutgoingOf(r, d))

\* C30: the persisted isEnabled flag always equals the enabled state of
\* ruleset_1 in the engine; a step of toggleRuleset that the engine rejects
\* leaves isEnabled and lastUpdate as they were; and no step of
\* toggleRuleset changes the ExemptionSet or the session rules.  (A step
\* that ends the handler without a restart is its step.)
C30_FlagFollowsEngine ==
  /\ [](isEnabled = ("ruleset_1" \in enabledRulesets))
  /\ [][ \A p \in AllProcs :
           (pc[p] = "rulesets" /\ pc'[p] # "rulesets"
              /\ restarts' = restarts) =>
             /\ disabledDomains' = disabledDomains
             /\ sessionRules' = sessionRules
             /\ faults' # faults =>
                  /\ isEnabled' = isEnabled
                  /\ lastUpdate' = lastUpdate
                  /\ enabledRulesets' = enabledRulesets ]_vars

\* C30 witness: with domains exempted, of the global toggles so far the
\* engine took one, switching the ruleset off, and rejected another.
C30_Witness ==
  /\ Idle
  /\ restarts = 0
  /\ disabledDomains # NoValue
  /\ disabledDomains = initialDomains
  /\ sessionRules # {}
  /\ sessionRules = initialRules
  /\ faults = 1
  /\ lastUpdate = 1
  /\ isEnabled = FALSE
  /\ "ruleset_1" \notin enabledRulesets

\* ---- two domains whose ids clash
\* The scenario of C25: d1 was exempted, both of its rules being added;
\* then d2, another domain, was exempted, the engine rejecting nothing but
\* a taken id.
FirstThenSecond(d1, d2) ==
  /\ Len(log) >= 2
  /\ pc[1] = "idle"
  /\ d1 # d2
  /\ log[1].request = [ domain |-> d1, isEnabled |-> FALSE, wellTyped |-> TRUE ]
  /\ ~log[1].adapterFailed
  /\ log[2].request = [ domain |-> d2, isEnabled |-> FALSE, wellTyped |-> TRUE ]
  /\ ~log[2].injected

\* ... and then d1 was blocked again, the engine accepting the removal.
ThenFirstBlocked(d1) ==
  /\ Len(log) = 3
  /\ log[3].request = [ domain |-> d1, isEnabled |-> TRUE, wellTyped |-> TRUE ]
  /\ ~log[3].injected

\* C25 as claimed: for d1, d2 with equal or adjacent hashes, exempting d2
\* after d1 puts d2 in the ExemptionSet and installs no rule that names d2;
\* blocking d1 again then removes the ids of d1, those d2 maps to among
\* them, and d2 stays in the ExemptionSet.
C25_SecondDomainGetsNoRule ==
  \A d1, d2 \in CollidingDomains :
    ( /\ FirstThenSecond(d1, d2)
      /\ hashCode(d2) - hashCode(d1) \in {-1, 0, 1} ) =>
      /\ Len(log) = 2 =>
           /\ d2 \in Members(disabledDomains)
           /\ ~ \E r \in sessionRules : r.domain = d2
      /\ ThenFirstBlocked(d1) =>
           /\ d2 \in Members(disabledDomains)
           /\ ~ \E r \in sessionRules :
                  r.id \in {hashCode(d1), hashCode(d1) + 1}

\* C25 as the code has it: the same, but when hash(d2) = hash(d1) - 1 the
\* initiator rule of d2 (its id is free) is installed and only its target
\* rule is missing; that rule outlives the blocking of d1.
C25_SecondDomainGetsNoPair ==
  \A d1, d2 \in CollidingDomains :
    ( /\ FirstThenSecond(d1, d2)
      /\ hashCode(d2) - hashCode(d1) \in {-1, 0, 1} ) =>
      LET below == hashCode(d2) = hashCode(d1) - 1
          named == { r \in sessionRules : r.domain = d2 }
      IN  /\ (Len(log) = 2 \/ ThenFirstBlocked(d1)) =>
               /\ d2 \in Members(disabledDomains)
               /\ IF below
                  THEN /\ Cardinality(named) = 1
                       /\ \A r \in named : IsIncomingOf(r, d2)
                  ELSE named = {}
          /\ ThenFirstBlocked(d1) =>
               ~ \E r \in sessionRules :
                   r.id \in {hashCode(d1), hashCode(d1) + 1}

\* C25 witness: "an" was exempted, then "c0", which has the same hash, then
\* "an" was blocked again.
C25_Witness ==
  /\ FirstThenSecond(<<97, 110>>, <<99, 48>>)
  /\ ThenFirstBlocked(<<97, 110>>)
  /\ hashCode(<<97, 110>>) = hashCode(<<99, 48>>)

\* ---- hashCode
\* 31 * h + c for every character c in turn, from 0, as an exact integer:
\* its digits to the base 65536, lowest first.
FoldStep(digits, c) ==
  LET d1 == 31 * digits[1] + c
      d2 == 31 * digits[2] + (d1 \div 65536)
      d3 == 31 * digits[3] + (d2 \div 65536)
      d4 == 31 * digits[4] + (d3 \div 65536)
  IN  << d1 % 65536, d2 % 65536, d3 % 65536, d4 >>

RECURSIVE ExactFold(_, _)
ExactFold(s, n) ==
  IF n = 0 THEN <<0, 0, 0, 0>> ELSE FoldStep(ExactFold(s, n - 1), s[n])

\* The exact integer taken modulo 2^32 into -2^31 .. 2^31 - 1.
Wrapped(digits) ==
  IF digits[2] >= 32768
  THEN (digits[2] - 65536) * 65536 + digits[1]
  ELSE digits[2] * 65536 + digits[1]

\* C26: hashCode(s) is the absolute value of the fold h := 31 * h + code
\* wrapped once to signed 32 bits; it is never negative and the id after it
\* is an unsigned 32-bit number; "an" and "na" hash differently.
C26_HashIsAbsOfWrappedFold ==
  hashReturned.done =>
    LET wrapped == Wrapped(ExactFold(hashArg, Len(hashArg)))
    IN  /\ hashReturned.value = (IF wrapped < 0 THEN 0 - wrapped ELSE wrapped)
        /\ hashReturned.value >= 0
        /\ hashReturned.value \div 65536 < 32768
        /\ (hashReturned.value \div 65536 = 32767)
             => (hashReturned.value % 65536) + 1 <= 65536
        /\ hashArg = <<97, 110>> => hashReturned.value = 3117
        /\ hashArg = <<110, 97>> => hashReturned.value = 3507

\* C26 witness: the fold of a string has left the 32-bit range and wrapped
\* to a negative number.
C26_Witness ==
  /\ hashReturned.done
  /\ ExactFold(hashArg, Len(hashArg))[3] > 0
  /\ Wrapped(ExactFold(hashArg, Len(hashArg))) < 0
  /\ hashReturned.value = 0 - Wrapped(ExactFold(hashArg, Len(hashArg)))

\* ---- the stats cache
\* C28: a getStats answer given after a toggle has completed reports the
\* flag and the rule count as they were persisted at or after the completion
\* of the last toggle.
C28_NoStaleStatsAfterToggle ==
  \A i \in 1..Len(answers) :
    answers[i].afterToggle => answers[i].reported \in answers[i].persisted

\* ---- the popup
\* C22: the promise of a toggle request settles exactly once and is pending
\* for at most TOGGLE_TIMEOUT; when the timer fires before the answer, the
\* toggle is shown as failed, and an answer that comes later changes
\* nothing.
C22_ToggleSettlesOnceInTime ==
  \A l \in Changes :
    /\ attempt[l].calls <= 1
    /\ lpc[l] \in {"refresh", "done"} => attempt[l].calls = 1
    /\ lpc[l] = "toggle" =>
         /\ attempt[l].calls = 0
         /\ call[l].timeoutMs = TOGGLE_TIMEOUT
         /\ call[l].elapsed <= TOGGLE_TIMEOUT
    /\ attempt[l].outcome = "timeout" =>
         /\ lpc[l] = "done"
         /\ attempt[l].reported = "Toggle fehlgeschlagen"
         /\ attempt[l].shown = ~neuerStatus[l]
    /\ (attempt[l].late /\ attempt[l].sent = 1) =>
         /\ lpc[l] = "done"
         /\ attempt[l].calls = 1

\* C22 witness: the answer to a toggle request came after its timeout.
C22_Witness ==
  \E l \in Changes :
    /\ attempt[l].outcome = "timeout"
    /\ attempt[l].late
    /\ call[l].message = "none"

\* C23: after a toggle that failed (timeout, messaging error, error result
\* of the handler) the switch shows what it showed before the click.
C23_FailedToggleRevertsSwitch ==
  \A l \in Changes :
    attempt[l].outcome \in {"timeout", "lastError", "error"} =>
      attempt[l].shown = attempt[l].before

\* C29 as claimed: at most one toggle message of the popup is unanswered.
C29_OneToggleUnanswered ==
  Cardinality({ l \in Changes : call[l].message = "toggleBlocking" }) <= 1

\* C29 as the code has it: at most one run of the listener is between
\* sending its toggle message and its return, the flag is set exactly
\* while one is, and a run that found the flag set has sent nothing.
C29_OneToggleAwaited ==
  /\ Cardinality({ l \in Changes : lpc[l] \in {"toggle", "refresh"} }) <= 1
  /\ gerade_am_togglen <=> \E l \in Changes : lpc[l] \in {"toggle", "refresh"}
  /\ \A l \in Changes :
       /\ lpc[l] = "dropped" => attempt[l].sent = 0 /\ call[l] = NoCall
       /\ lpc[l] \in {"toggle", "refresh", "done"} => attempt[l].sent = 1

\* C29 witness: a click was dropped while a toggle was awaited, and that
\* toggle then timed out.
C29_Witness ==
  /\ lpc[1] = "done"
  /\ attempt[1].outcome = "timeout"
  /\ lpc[2] = "dropped"
  /\ ~gerade_am_togglen

====
